---- MODULE Spec2Model ----
(***************************************************************************)
(* Model of the Speckle stream activity dashboard (src/speckle_custom.py,  *)
(* src/misc.py, src/main.py).                                              *)
(*                                                                         *)
(* One render pass is SpeckleWebApp.__post_init__: setup_page,             *)
(* setup_header, setup_inputs (login, connect, stream list, selectbox,     *)
(* stream_by_name, branches, commits), setup_viewer, setup_report,         *)
(* setup_graphs.  Every statement that can raise ends the pass.            *)
(*                                                                         *)
(* Text is modelled as a sequence of one-character strings, so that        *)
(* substring search and list_to_markdown are computed character by         *)
(* character.  An optional value (Python None) is a sequence of length 0,  *)
(* a present value x is <<x>>.                                             *)
(*                                                                         *)
(* pandas is modelled with the 1.x behaviour the source is written for:    *)
(* value_counts().reset_index() names the key column 'index'.              *)
(***************************************************************************)
EXTENDS Integers, Sequences, FiniteSets, TLC

\* ------------------------------------------------------------------ bounds

\* longest stream listing the server returns
MaxStreams == 2
\* longest commit / collaborator list fetched in a render pass
MaxFetched == 2
\* longest commit list handed to the aggregation functions on their own
MaxCommits == 3
\* largest createdAt timestamp (in ticks) of a commit
MaxTick == 4
\* longest list of names handed to dict.fromkeys / list_to_markdown on its own
MaxItems == 3

\* ticks per calendar day: pd.to_datetime(...).dt.date drops the time of day
TicksPerDay == 2

\* ------------------------------------------------------------------ values

None == <<>>
Some(x) == <<x>>

SeqsUpTo(S, n) == UNION {[1..k -> S] : k \in 0..n}

Rhino == <<"R", "h", "i", "n", "o">>
Revit == <<"R", "e", "v", "i", "t">>
Blender == <<"B", "l", "e", "n", "d", "e", "r">>
Apps == {Rhino, Revit, Blender}

Ann == <<"a", "n", "n">>
Bob == <<"b", "o", "b">>
PersonNames == {Ann, Bob}

\* stream names: the second contains the first
NameA == <<"a">>
NameAB == <<"a", "b">>
StreamNames == {NameA, NameAB}

BranchMain == <<"m", "a", "i", "n">>
BranchDev == <<"d", "e", "v">>

\* short items for the bullet list
Items == {<<"a">>, <<"b">>, <<"a", "b">>}

\* ------------------------------------------------------------------ misc.py

\* f'https://speckle.xyz/embed?stream={stream.id}&commit={commit.id}'
commit_url(stream, commit) ==
    <<"https://speckle.xyz/embed?stream=", stream.id, "&commit=", commit.id>>

\* f'- {element} \n'
Bullet(element) == <<"-", " ">> \o element \o <<" ", "\n">>

RECURSIVE JoinBullets(_)
JoinBullets(lst) ==
    IF lst = <<>> THEN <<>> ELSE Bullet(Head(lst)) \o JoinBullets(Tail(lst))

\* the documented "- {item}" joined by newlines, without the trailing " \n"
RECURSIVE list_to_markdown_joined(_)
list_to_markdown_joined(lst) ==
    IF lst = <<>> THEN <<>>
    ELSE IF Len(lst) = 1 THEN <<"-", " ">> \o Head(lst)
    ELSE <<"-", " ">> \o Head(lst) \o <<"\n">> \o list_to_markdown_joined(Tail(lst))

\* ''.join([f'- {element} \n' for element in lst])
list_to_markdown(lst) == JoinBullets(lst)

\* ------------------------------------------------------------------ dict.fromkeys

\* keeps the last occurrence of each key instead of the first
dict_fromkeys_last(lst) ==
    LET F[i \in 0..Len(lst)] ==
          IF i = 0 THEN <<>>
          ELSE IF \E j \in (i + 1)..Len(lst) : lst[j] = lst[i]
               THEN F[i - 1]
               ELSE Append(F[i - 1], lst[i])
    IN F[Len(lst)]

\* list(dict.fromkeys(lst)): the distinct elements, in insertion order
dict_fromkeys(lst) ==
    LET F[i \in 0..Len(lst)] ==
          IF i = 0 THEN <<>>
          ELSE IF \E j \in 1..(i - 1) : lst[j] = lst[i]
               THEN F[i - 1]
               ELSE Append(F[i - 1], lst[i])
    IN F[Len(lst)]

\* ------------------------------------------------------------------ pandas

\* number of rows of the column holding key k
Occurrences(col, k) == Cardinality({i \in 1..Len(col) : col[i] = k})

\* one row <<key, count>> per distinct key, in first-seen order, not sorted
value_counts_unsorted(col) ==
    LET keys == dict_fromkeys(col)
    IN {[i \in 1..Len(keys) |-> <<keys[i], Occurrences(col, keys[i])>>]}

\* Series.value_counts().reset_index(): one row <<key, count>> per distinct
\* key, sorted by count, largest first.  The order of keys with equal counts
\* depends on the pandas build (hash table order, unstable sort): every
\* order is an outcome.
value_counts(col) ==
    LET keys == dict_fromkeys(col)
        n == Len(keys)
        cnt(k) == Occurrences(col, k)
    IN {[i \in 1..n |-> <<keys[p[i]], cnt(keys[p[i]])>>] :
          p \in {q \in Permutations(1..n) :
                   \A i \in 1..(n - 1) : cnt(keys[q[i]]) >= cnt(keys[q[i + 1]])}}

\* .dt.date of a timestamp: the calendar day, time of day dropped
to_date(ts) == ts \div TicksPerDay

\* DataFrame.sort_values('index'): rows in ascending order of the key
RECURSIVE sort_values(_)
sort_values(rows) ==
    IF rows = <<>> THEN <<>>
    ELSE LET m == CHOOSE i \in 1..Len(rows) :
                    \A j \in 1..Len(rows) : rows[i][1] <= rows[j][1]
             rest == [k \in 1..(Len(rows) - 1) |->
                        IF k < m THEN rows[k] ELSE rows[k + 1]]
         IN <<rows[m]>> \o sort_values(rest)

\* cdate['index'].min() and .max()
ColumnMin(rows) == CHOOSE d \in {rows[i][1] : i \in 1..Len(rows)} :
                      \A i \in 1..Len(rows) : d <= rows[i][1]
ColumnMax(rows) == CHOOSE d \in {rows[i][1] : i \in 1..Len(rows)} :
                      \A i \in 1..Len(rows) : d >= rows[i][1]

\* a range that stops one day before `end`
date_range_exclusive(start, end) == [i \in 1..(end - start) |-> start + i - 1]

\* pd.date_range(start=, end=): every day from start to end, both included
date_range(start, end) == [i \in 1..(end - start + 1) |-> start + i - 1]

\* set_index('index').reindex(days, fill_value=0).reset_index()
reindex(rows, days) ==
    [i \in 1..Len(days) |->
       IF \E j \in 1..Len(rows) : rows[j][1] = days[i]
       THEN <<days[i], rows[CHOOSE j \in 1..Len(rows) : rows[j][1] = days[i]][2]>>
       ELSE <<days[i], 0>>]

\* lines 160-165, given the outcome vc of value_counts on the dates
timeline_from(vc) ==
    LET cdate == sort_values(vc)
        null_days == date_range(ColumnMin(cdate), ColumnMax(cdate))
    IN reindex(cdate, null_days)

Column(commits, field) == [i \in 1..Len(commits) |-> commits[i][field]]
Dates(commits) == [i \in 1..Len(commits) |-> to_date(commits[i].createdAt)]

\* ------------------------------------------------------------------ state

VARIABLES
    pc,                    \* the statement of __post_init__ the pass is at
    error,                 \* the exception that ended the pass, "" if none
    failed_at,             \* the step that raised it, "" if none
    shown,                 \* containers that received output in this pass
    calls,                 \* calls made in this pass, per operation
    remote,                \* the server's streams, in listing order
    token,                 \* SpeckleWebApp.token
    connection,            \* SpeckleConnection: server, token, authenticated
    stream_names,          \* local of setup_inputs
    selected_stream_name,  \* SpeckleWebApp.selected_stream_name
    search_result,         \* what client.stream.search returned
    selected_stream,       \* SpeckleWebApp.selected_stream
    branches,              \* SpeckleWebApp.branches
    commits,               \* SpeckleWebApp.commits
    viewer,                \* src of the iframe
    report,                \* metrics and lists of setup_report
    graphs,                \* tables of setup_graphs
    fn,                    \* aggregation applied on its own, "" before
    arg,                   \* its argument
    ret,                   \* its result
    ret2                   \* the result of applying it to its own result

vars == <<pc, error, failed_at, shown, calls, remote, token, connection,
          stream_names, selected_stream_name, search_result, selected_stream,
          branches, commits, viewer, report, graphs, fn, arg, ret, ret2>>

passVars == <<pc, error, failed_at, shown, calls, remote, token, connection,
              stream_names, selected_stream_name, search_result,
              selected_stream, branches, commits, viewer, report, graphs>>

aggVars == <<fn, arg, ret, ret2>>

\* self.container_titles
container_titles == <<"header", "inputs", "viewer", "report", "graphs">>

Operations == {"connect", "streams", "selectbox", "stream_by_name",
               "branches_from_stream", "commits_from_stream",
               "setup_viewer", "setup_report", "setup_graphs"}

DefaultServer == "speckle.xyz"
Tokens == {"good", "bad"}
NetOutcomes == {"ok", "NetworkError"}

Stream(id, name) == [id |-> id, name |-> name]

RemoteLists ==
    {[i \in 1..Len(f) |-> Stream(i, f[i])] : f \in SeqsUpTo(StreamNames, MaxStreams)}

Collaborators == {[name |-> n] : n \in PersonNames}

BranchPool == {[name |-> BranchMain, commits_total |-> 1],
               [name |-> BranchDev, commits_total |-> 0]}

\* branch lists of n branches; branch names are unique within a stream
BranchLists(n) ==
    {bs \in SeqsUpTo(BranchPool, n) :
       /\ Len(bs) = n
       /\ \A i, j \in 1..Len(bs) : bs[i].name = bs[j].name => i = j}

Commit(author, app, tick) ==
    [authorName |-> author, sourceApplication |-> app, createdAt |-> tick]

\* the commits a stream of a render pass is made of
PassCommits == {Commit(Ann, Rhino, 0), Commit(Ann, Revit, 1),
                Commit(Bob, Revit, MaxTick)}

\* the commits the aggregation functions are applied to on their own
AggCommits == {Commit(Ann, app, tick) : app \in Apps, tick \in 0..MaxTick}

\* commit lists; a commit's id is its position in the answer
CommitLists(pool, n) ==
    {[i \in 1..Len(f) |->
        [id |-> i, authorName |-> f[i].authorName,
         sourceApplication |-> f[i].sourceApplication,
         createdAt |-> f[i].createdAt]] : f \in SeqsUpTo(pool, n)}

\* ------------------------------------------------------------------ server

\* whether text contains q as a contiguous run of characters
Contains(text, q) ==
    \E off \in 0..(Len(text) - Len(q)) : SubSeq(text, off + 1, off + Len(q)) = q

\* client.stream.search(q): the streams whose name contains q, in listing
\* order; without a query, every stream
Search(streams, q) ==
    IF q = None THEN streams
    ELSE SelectSeq(streams, LAMBDA s : Contains(s.name, q))

RemoveAt(s, i) == [k \in 1..(Len(s) - 1) |-> IF k < i THEN s[k] ELSE s[k + 1]]

\* the server's streams when a later request is served: the listing, or the
\* listing less a stream deleted in the meantime
LiveRemotes(streams) == {streams} \cup {RemoveAt(streams, i) : i \in 1..Len(streams)}


\* ------------------------------------------------------------------ report and graphs

\* setup_report: the metrics and the bullet lists of the four columns
setup_report(stream, brs, cms) ==
    LET connector_list == Column(cms, "sourceApplication")
        connector_dict == dict_fromkeys(connector_list)
        contributors == dict_fromkeys(Column(stream.collaborators, "name"))
    IN [num_branches |-> stream.branches_total,
        branch_names |-> list_to_markdown(Column(brs, "name")),
        num_commits |-> Len(cms),
        num_connectors |-> Len(connector_dict),
        connector_list |-> connector_dict,
        connectors |-> list_to_markdown(connector_dict),
        num_contributors |-> Len(stream.collaborators),
        contributor_list |-> contributors,
        contributors |-> list_to_markdown(contributors)]

NoTable == <<>>

\* setup_graphs: the outcomes of the four tables.  pd.DataFrame([]) has no
\* columns, so commits_df['sourceApplication'] raises KeyError.
setup_graphs(brs, cms) ==
    LET branch_counts == [i \in 1..Len(brs) |-> <<brs[i].name, brs[i].commits_total>>]
    IN IF cms = <<>>
       THEN {[error |-> "KeyError", branch_counts |-> branch_counts,
              apps_df |-> NoTable, authors_df |-> NoTable, cdate |-> NoTable]}
       ELSE {[error |-> "", branch_counts |-> branch_counts,
              apps_df |-> a, authors_df |-> u, cdate |-> timeline_from(d)] :
               a \in value_counts(Column(cms, "sourceApplication")),
               u \in value_counts(Column(cms, "authorName")),
               d \in value_counts(Dates(cms))}

\* ------------------------------------------------------------------ render pass

NoCalls == [op \in Operations |-> 0]

\* the fields of a new SpeckleWebApp, about to run statement p
Fresh(p, streams) ==
    /\ pc = p
    /\ error = ""
    /\ failed_at = ""
    /\ shown = {}
    /\ calls = NoCalls
    /\ remote = streams
    /\ token = "good"
    /\ connection = [server |-> DefaultServer, token |-> "", authenticated |-> FALSE]
    /\ stream_names = None
    /\ selected_stream_name = None
    /\ search_result = None
    /\ selected_stream = None
    /\ branches = None
    /\ commits = None
    /\ viewer = None
    /\ report = None
    /\ graphs = None

NoArg == [kind |-> "", commits |-> <<>>, items |-> <<>>]

Init ==
    /\ \E streams \in RemoteLists : Fresh("setup_page", streams)
    /\ fn = ""
    /\ arg = NoArg
    /\ ret = None
    /\ ret2 = None

Fail(step, exc) ==
    /\ pc' = "failed"
    /\ error' = exc
    /\ failed_at' = step

Goto(next) ==
    /\ pc' = next
    /\ UNCHANGED <<error, failed_at>>

Called(op) == calls' = [calls EXCEPT ![op] = @ + 1]

\* st.set_page_config; SpeckleConnection(); the five containers
setup_page ==
    /\ pc = "setup_page"
    /\ Goto("setup_header")
    /\ UNCHANGED <<shown, calls, remote, token, connection, stream_names,
                   selected_stream_name, search_result, selected_stream,
                   branches, commits, viewer, report, graphs, aggVars>>

setup_header ==
    /\ pc = "setup_header"
    /\ shown' = shown \cup {"header"}
    /\ Goto("set_login_info")
    /\ UNCHANGED <<calls, remote, token, connection, stream_names,
                   selected_stream_name, search_result, selected_stream,
                   branches, commits, viewer, report, graphs, aggVars>>

\* setup_inputs up to set_login_info: the subheader, the two text inputs
set_login_info ==
    /\ pc = "set_login_info"
    /\ shown' = shown \cup {"inputs"}
    /\ \E t \in Tokens :
         /\ token' = t
         /\ connection' = [connection EXCEPT !.server = DefaultServer, !.token = t]
    /\ Goto("connect")
    /\ UNCHANGED <<calls, remote, stream_names, selected_stream_name,
                   search_result, selected_stream, branches, commits, viewer,
                   report, graphs, aggVars>>

\* self.connection()
connect ==
    /\ pc = "connect"
    /\ Called("connect")
    /\ \E net \in NetOutcomes :
         IF connection.token = "bad"
         THEN Fail("connect", "AuthError") /\ UNCHANGED connection
         ELSE IF net # "ok"
         THEN Fail("connect", net) /\ UNCHANGED connection
         ELSE /\ connection' = [connection EXCEPT !.authenticated = TRUE]
              /\ Goto("streams")
    /\ UNCHANGED <<shown, remote, token, stream_names, selected_stream_name,
                   search_result, selected_stream, branches, commits, viewer,
                   report, graphs, aggVars>>

\* stream_names = [s.name for s in self.connection.streams]
streams ==
    /\ pc = "streams"
    /\ Called("streams")
    /\ \E net \in NetOutcomes :
         IF net # "ok"
         THEN Fail("streams", net) /\ UNCHANGED stream_names
         ELSE /\ stream_names' = Some(Column(remote, "name"))
              /\ Goto("selectbox")
    /\ UNCHANGED <<shown, remote, token, connection, selected_stream_name,
                   search_result, selected_stream, branches, commits, viewer,
                   report, graphs, aggVars>>

\* st.selectbox(options=stream_names): one of the options, None without options
selectbox ==
    /\ pc = "selectbox"
    /\ Called("selectbox")
    /\ LET options == stream_names[1]
       IN IF options = <<>>
          THEN selected_stream_name' = None
          ELSE \E i \in 1..Len(options) : selected_stream_name' = options[i]
    /\ Goto("stream_by_name")
    /\ UNCHANGED <<shown, remote, token, connection, stream_names,
                   search_result, selected_stream, branches, commits, viewer,
                   report, graphs, aggVars>>

\* self.client.stream.search(name)[0]
stream_by_name ==
    /\ pc = "stream_by_name"
    /\ Called("stream_by_name")
    /\ \E net \in NetOutcomes, live \in LiveRemotes(remote) :
         IF net # "ok"
         THEN /\ Fail("stream_by_name", net)
              /\ UNCHANGED <<remote, search_result, selected_stream>>
         ELSE LET found == Search(live, selected_stream_name)
              IN /\ remote' = live
                 /\ search_result' = Some(Column(found, "id"))
                 /\ IF found = <<>>
                    THEN /\ Fail("stream_by_name", "IndexError")
                         /\ UNCHANGED selected_stream
                    ELSE /\ \E cs \in SeqsUpTo(Collaborators, MaxFetched),
                               nb \in 0..Cardinality(BranchPool) :
                              selected_stream' =
                                Some([id |-> found[1].id, name |-> found[1].name,
                                      collaborators |-> cs, branches_total |-> nb])
                         /\ Goto("branches_from_stream")
    /\ UNCHANGED <<shown, token, connection, stream_names, selected_stream_name,
                   branches, commits, viewer, report, graphs, aggVars>>

\* self.connection.branches_from_stream(self.selected_stream.id)
branches_from_stream ==
    /\ pc = "branches_from_stream"
    /\ Called("branches_from_stream")
    /\ \E net \in NetOutcomes :
         IF net # "ok"
         THEN Fail("branches_from_stream", net) /\ UNCHANGED branches
         ELSE /\ \E bs \in BranchLists(selected_stream[1].branches_total) :
                   branches' = Some(bs)
              /\ Goto("commits_from_stream")
    /\ UNCHANGED <<shown, remote, token, connection, stream_names,
                   selected_stream_name, search_result, selected_stream,
                   commits, viewer, report, graphs, aggVars>>

\* self.connection.commits_from_stream(self.selected_stream.id); setup_inputs
\* returns and its local stream_names is gone
commits_from_stream ==
    /\ pc = "commits_from_stream"
    /\ Called("commits_from_stream")
    /\ \E net \in NetOutcomes :
         IF net # "ok"
         THEN Fail("commits_from_stream", net) /\ UNCHANGED <<commits, stream_names>>
         ELSE /\ \E cl \in CommitLists(PassCommits, MaxFetched) :
                   commits' = Some(cl)
              /\ stream_names' = None
              /\ Goto("setup_viewer")
    /\ UNCHANGED <<shown, remote, token, connection, selected_stream_name,
                   search_result, selected_stream, branches, viewer, report,
                   graphs, aggVars>>

\* a viewer that catches the IndexError and lets the pass go on
setup_viewer_swallow ==
    /\ pc = "setup_viewer"
    /\ Called("setup_viewer")
    /\ shown' = shown \cup {"viewer"}
    /\ IF commits[1] = <<>>
       THEN /\ error' = "IndexError"
            /\ failed_at' = "setup_viewer"
            /\ pc' = "setup_report"
            /\ UNCHANGED viewer
       ELSE /\ viewer' = Some(commit_url(selected_stream[1], commits[1][1]))
            /\ Goto("setup_report")
    /\ UNCHANGED <<remote, token, connection, stream_names,
                   selected_stream_name, search_result, selected_stream,
                   branches, commits, report, graphs, aggVars>>

\* the subheader, then commit_url(self.selected_stream, self.commits[0])
setup_viewer ==
    /\ pc = "setup_viewer"
    /\ Called("setup_viewer")
    /\ shown' = shown \cup {"viewer"}
    /\ IF commits[1] = <<>>
       THEN Fail("setup_viewer", "IndexError") /\ UNCHANGED viewer
       ELSE /\ viewer' = Some(commit_url(selected_stream[1], commits[1][1]))
            /\ Goto("setup_report")
    /\ UNCHANGED <<remote, token, connection, stream_names,
                   selected_stream_name, search_result, selected_stream,
                   branches, commits, report, graphs, aggVars>>

setup_report_step ==
    /\ pc = "setup_report"
    /\ Called("setup_report")
    /\ shown' = shown \cup {"report"}
    /\ report' = Some(setup_report(selected_stream[1], branches[1], commits[1]))
    /\ Goto("setup_graphs")
    /\ UNCHANGED <<remote, token, connection, stream_names,
                   selected_stream_name, search_result, selected_stream,
                   branches, commits, viewer, graphs, aggVars>>

setup_graphs_step ==
    /\ pc = "setup_graphs"
    /\ Called("setup_graphs")
    /\ shown' = shown \cup {"graphs"}
    /\ \E g \in setup_graphs(branches[1], commits[1]) :
         IF g.error # ""
         THEN Fail("setup_graphs", g.error) /\ UNCHANGED graphs
         ELSE graphs' = Some(g) /\ Goto("done")
    /\ UNCHANGED <<remote, token, connection, stream_names,
                   selected_stream_name, search_result, selected_stream,
                   branches, commits, viewer, report, aggVars>>

\* a user interaction re-executes the script: a new app, a new pass
Rerun ==
    /\ pc \in {"done", "failed"}
    /\ pc' = "setup_page"
    /\ error' = ""
    /\ failed_at' = ""
    /\ shown' = {}
    /\ calls' = NoCalls
    /\ remote' \in RemoteLists
    /\ token' = "good"
    /\ connection' = [server |-> DefaultServer, token |-> "", authenticated |-> FALSE]
    /\ stream_names' = None
    /\ selected_stream_name' = None
    /\ search_result' = None
    /\ selected_stream' = None
    /\ branches' = None
    /\ commits' = None
    /\ viewer' = None
    /\ report' = None
    /\ graphs' = None
    /\ UNCHANGED aggVars

Next ==
    \/ setup_page
    \/ setup_header
    \/ set_login_info
    \/ connect
    \/ streams
    \/ selectbox
    \/ stream_by_name
    \/ branches_from_stream
    \/ commits_from_stream
    \/ setup_viewer
    \/ setup_report_step
    \/ setup_graphs_step
    \/ Rerun

Spec == Init /\ [][Next]_vars


\* ------------------------------------------------------------------ aggregations on their own

\* the report and the graphs are functions of the fetched lists: here they
\* are applied to lists drawn from larger sets than a render pass fetches

InitAgg ==
    /\ Fresh("aggregation", <<>>)
    /\ fn = ""
    /\ \/ \E cl \in CommitLists(AggCommits, MaxCommits) :
            arg = [kind |-> "commits", commits |-> cl, items |-> <<>>]
       \/ \E l \in SeqsUpTo(Items, MaxItems) :
            arg = [kind |-> "items", commits |-> <<>>, items |-> l]
    /\ ret = None
    /\ ret2 = None

\* a stream whose collaborators carry the given names
StreamWith(names) ==
    [id |-> 1, name |-> NameA,
     collaborators |-> [i \in 1..Len(names) |-> [name |-> names[i]]],
     branches_total |-> 0]

apply_setup_graphs ==
    /\ fn = ""
    /\ arg.kind = "commits"
    /\ fn' = "setup_graphs"
    /\ \E g \in setup_graphs(<<>>, arg.commits) : ret' = g
    /\ UNCHANGED <<arg, ret2, passVars>>

apply_setup_report ==
    /\ fn = ""
    /\ fn' = "setup_report"
    /\ ret' = setup_report(StreamWith(arg.items), <<>>, arg.commits)
    /\ UNCHANGED <<arg, ret2, passVars>>

apply_dict_fromkeys ==
    /\ fn = ""
    /\ arg.kind = "items"
    /\ fn' = "dict_fromkeys"
    /\ ret' = dict_fromkeys(arg.items)
    /\ UNCHANGED <<arg, ret2, passVars>>

\* dict.fromkeys applied to its own result
apply_dict_fromkeys_again ==
    /\ fn = "dict_fromkeys"
    /\ ret2 = None
    /\ ret2' = Some(dict_fromkeys(ret))
    /\ UNCHANGED <<fn, arg, ret, passVars>>

apply_list_to_markdown ==
    /\ fn = ""
    /\ arg.kind = "items"
    /\ fn' = "list_to_markdown"
    /\ ret' = list_to_markdown(arg.items)
    /\ UNCHANGED <<arg, ret2, passVars>>

NextAgg ==
    \/ apply_setup_graphs
    \/ apply_setup_report
    \/ apply_dict_fromkeys
    \/ apply_dict_fromkeys_again
    \/ apply_list_to_markdown

SpecAgg == InitAgg /\ [][NextAgg]_vars


\* ------------------------------------------------------------------ claims

\* the statements of a pass, in execution order, and the container each writes to
StepOrder == <<"connect", "streams", "selectbox", "stream_by_name",
               "branches_from_stream", "commits_from_stream",
               "setup_viewer", "setup_report", "setup_graphs">>

StepIndex(step) == CHOOSE i \in 1..Len(StepOrder) : StepOrder[i] = step

SectionsUpTo(step) ==
    {"header", "inputs"}
      \cup (IF StepIndex(step) >= StepIndex("setup_viewer") THEN {"viewer"} ELSE {})
      \cup (IF StepIndex(step) >= StepIndex("setup_report") THEN {"report"} ELSE {})
      \cup (IF StepIndex(step) >= StepIndex("setup_graphs") THEN {"graphs"} ELSE {})

\* index of the first occurrence of x in src
FirstIndex(src, x) == CHOOSE i \in 1..Len(src) :
                         src[i] = x /\ \A j \in 1..(i - 1) : src[j] # x

\* out holds each distinct element of src once, in the order of first occurrence
IsFirstSeenDistinct(out, src) ==
    /\ \A i, j \in 1..Len(out) : out[i] = out[j] => i = j
    /\ {out[i] : i \in 1..Len(out)} = {src[i] : i \in 1..Len(src)}
    /\ \A i, j \in 1..Len(out) :
         i < j => FirstIndex(src, out[i]) < FirstIndex(src, out[j])

\* table holds one row <<key, count>> per distinct element of col, count its
\* number of occurrences
IsCountTable(table, col) ==
    /\ \A i, j \in 1..Len(table) : table[i][1] = table[j][1] => i = j
    /\ {table[i][1] : i \in 1..Len(table)} = {col[i] : i \in 1..Len(col)}
    /\ \A i \in 1..Len(table) :
         table[i][2] = Cardinality({j \in 1..Len(col) : col[j] = table[i][1]})

\* C1: when the search returns no stream, the lookup fails with
\* NotFoundError and never with an index error.
C1_LookupNotFound ==
    (failed_at = "stream_by_name" /\ search_result = Some(<<>>))
      => error = "NotFoundError"

\* C2: with an empty commit list the pass fails with EmptyDataError raised
\* by the timeline aggregation of setup_graphs, not earlier and not with
\* another error.
C2_EmptyCommitsEmptyDataError ==
    (commits = Some(<<>>) /\ pc \in {"failed", "done"})
      => (pc = "failed" /\ failed_at = "setup_graphs" /\ error = "EmptyDataError")

\* C3: for a non-empty commit list the timeline has one row per calendar
\* day from the first to the last commit day, in ascending order, and each
\* row counts the commits created on its day (0 on days without commits).
C3_TimelineGapFilled ==
    (fn = "setup_graphs" /\ arg.commits # <<>>) =>
      LET cms == arg.commits
          day(i) == cms[i].createdAt \div TicksPerDay
          days == {day(i) : i \in 1..Len(cms)}
          minDate == CHOOSE d \in days : \A e \in days : d <= e
          maxDate == CHOOSE d \in days : \A e \in days : d >= e
      IN /\ ret.error = ""
         /\ Len(ret.cdate) = maxDate - minDate + 1
         /\ \A i \in 1..Len(ret.cdate) :
              /\ ret.cdate[i][1] = minDate + i - 1
              /\ ret.cdate[i][2] =
                   Cardinality({j \in 1..Len(cms) : day(j) = minDate + i - 1})

\* C3 witness: commits on days 0, 0 and 2 give rows (0,2), (1,0), (2,1)
C3_Witness ==
    /\ fn = "setup_graphs"
    /\ Len(arg.commits) = 3
    /\ ret.error = ""
    /\ ret.cdate = << <<0, 2>>, <<1, 0>>, <<2, 1>> >>

\* C4 as stated: the distribution table has one row per distinct
\* application with its number of commits, in first-seen order and not in
\* order of count.  Stated on the commit lists whose applications all have
\* different counts, where the table does not depend on how pandas orders
\* equal counts.
C4_AppsFirstSeenOrder ==
    (fn = "setup_graphs" /\ arg.commits # <<>>) =>
      LET col == Column(arg.commits, "sourceApplication")
          distinctCounts ==
            \A a, b \in Apps :
              (Occurrences(col, a) = Occurrences(col, b) /\ Occurrences(col, a) > 0)
                => a = b
      IN /\ IsCountTable(ret.apps_df, col)
         /\ distinctCounts => IsFirstSeenDistinct(Column(ret.apps_df, 1), col)

\* C4 amended: the distribution table has one row per distinct application
\* with its number of commits, the rows in descending order of count.
C4_AppsByCount ==
    (fn = "setup_graphs" /\ arg.commits # <<>>) =>
      LET col == Column(arg.commits, "sourceApplication")
      IN /\ IsCountTable(ret.apps_df, col)
         /\ \A i \in 1..(Len(ret.apps_df) - 1) :
              ret.apps_df[i][2] >= ret.apps_df[i + 1][2]

\* C4 witness: ["Revit","Rhino","Rhino"] gives [("Rhino",2),("Revit",1)]
C4_Witness ==
    /\ fn = "setup_graphs"
    /\ Column(arg.commits, "sourceApplication") = <<Revit, Rhino, Rhino>>
    /\ ret.apps_df = << <<Rhino, 2>>, <<Revit, 1>> >>

\* C5 as stated: a failed pass ran no later step, retried nothing and shows
\* no section at all.
C5_NoSectionShown ==
    pc = "failed" =>
      /\ shown = {}
      /\ \A op \in Operations : calls[op] <= 1
      /\ \A op \in Operations :
           StepIndex(op) > StepIndex(failed_at) => calls[op] = 0

\* C5 amended: a failure ends the pass at the failing step: no later step
\* runs, no step runs twice, the results of later steps stay unset, and the
\* sections shown are exactly those up to and including the section of the
\* failing step.
C5_FailFast ==
    /\ error # "" <=> pc = "failed"
    /\ pc = "failed" =>
         /\ failed_at \in Operations
         /\ \A op \in Operations : calls[op] <= 1
         /\ calls[failed_at] = 1
         /\ \A op \in Operations :
              StepIndex(op) > StepIndex(failed_at) => calls[op] = 0
         /\ shown = SectionsUpTo(failed_at)
         /\ StepIndex(failed_at) <= StepIndex("setup_viewer") => report = None
         /\ graphs = None

\* C5 witness: the viewer failed on an empty commit list; header, inputs
\* and viewer were written, report and graphs were not
C5_Witness ==
    /\ pc = "failed"
    /\ failed_at = "setup_viewer"
    /\ shown = {"header", "inputs", "viewer"}
    /\ report = None

\* C6: the stream list is requested only after connect succeeded, the
\* lookup and the fetches only after a stream name was selected, and the
\* viewer, report and graphs only after the stream was resolved and the
\* branches and commits were fetched.
C6_ForwardOnly ==
    /\ calls["streams"] > 0 => connection.authenticated
    /\ calls["stream_by_name"] > 0 =>
         (calls["selectbox"] > 0 /\ selected_stream_name # None)
    /\ calls["branches_from_stream"] > 0 =>
         (selected_stream_name # None /\ selected_stream # None)
    /\ calls["commits_from_stream"] > 0 =>
         (selected_stream_name # None /\ selected_stream # None /\ branches # None)
    /\ (calls["setup_viewer"] > 0 \/ calls["setup_report"] > 0
          \/ calls["setup_graphs"] > 0) =>
         (selected_stream # None /\ branches # None /\ commits # None)

\* C7: the stream that is loaded carries exactly the selected name, for
\* every listing and every name selected from it.  Stated for a server whose
\* streams are still the listed ones when the lookup is served.
C7_SelectedStreamHasSelectedName ==
    (/\ selected_stream # None
     /\ stream_names # None
     /\ Column(remote, "name") = stream_names[1])
      => selected_stream[1].name = selected_stream_name

\* C8: dict.fromkeys keeps one copy of each distinct name in first-seen
\* order, for the connector and the contributor lists of the report too,
\* and applying it to its own result changes neither the list nor its length.
C8_DedupFirstSeenIdempotent ==
    /\ fn = "dict_fromkeys" =>
         /\ IsFirstSeenDistinct(ret, arg.items)
         /\ ret2 # None => (ret2[1] = ret /\ Len(ret2[1]) = Len(ret))
    /\ fn = "setup_report" =>
         /\ IsFirstSeenDistinct(ret.connector_list,
                                Column(arg.commits, "sourceApplication"))
         /\ IsFirstSeenDistinct(ret.contributor_list, arg.items)

\* C8 witness: a list with a repeated name was deduplicated twice
C8_Witness ==
    /\ fn = "dict_fromkeys"
    /\ ret2 # None
    /\ Len(ret) >= 2
    /\ Len(ret) < Len(arg.items)

\* position in the rendering before which item k starts
RECURSIVE BulletOffset(_, _)
BulletOffset(items, k) ==
    IF k = 1 THEN 0 ELSE BulletOffset(items, k - 1) + Len(items[k - 1]) + 4

\* C9: the bullet list is, item after item, "- " + item + " \n"; the empty
\* list gives the empty string and ["a","b"] gives "- a \n- b \n".
C9_BulletList ==
    fn = "list_to_markdown" =>
      LET items == arg.items
      IN /\ Len(ret) = BulletOffset(items, Len(items) + 1)
         /\ \A k \in 1..Len(items) :
              LET off == BulletOffset(items, k)
                  n == Len(items[k])
              IN /\ ret[off + 1] = "-"
                 /\ ret[off + 2] = " "
                 /\ SubSeq(ret, off + 3, off + 2 + n) = items[k]
                 /\ ret[off + n + 3] = " "
                 /\ ret[off + n + 4] = "\n"
         /\ items = <<>> => ret = <<>>
         /\ items = << <<"a">>, <<"b">> >> =>
              ret = <<"-", " ", "a", " ", "\n", "-", " ", "b", " ", "\n">>

\* C9 witness: ["a","b"] was rendered
C9_Witness ==
    /\ fn = "list_to_markdown"
    /\ arg.items = << <<"a">>, <<"b">> >>
    /\ Len(ret) = 10

\* C10: in the report each count equals the number of names listed beneath
\* it, for connectors and for contributors.
C10_CountsMatchLists ==
    report # None =>
      /\ report[1].num_connectors = Len(report[1].connector_list)
      /\ report[1].num_contributors = Len(report[1].contributor_list)

====
